---- MODULE Spec2Model ----
(***************************************************************************)
(* Model of libgtftk/command/get_list.c: the four listing entry points      *)
(* (get_feature_list, get_seqid_list, get_attribute_list,                   *)
(* get_attribute_values_list), the twalk callback action_list and the       *)
(* process-wide accumulator vret they all write through.                    *)
(*                                                                         *)
(* A text is a sequence of character codes, so that strcmp order and the    *)
(* "%d" conversion are computed and not assumed.  A row is a sequence of    *)
(* texts, a table's data a sequence of rows.                                *)
(* Every statement of the source that reads or writes vret is one step of   *)
(* the calling thread.                                                      *)
(***************************************************************************)
EXTENDS Integers, Sequences, FiniteSets

VARIABLES
    gtf_data,   \* the dataset handed to the entry points: a sequence of rows
    heap,       \* the TTEXT objects allocated so far; an address is an index
    vret,       \* get_list.c:18, the global TTEXT *vret (0 is NULL)
    pc,         \* per thread: the statement it is about to execute
    func,       \* per thread: the entry point it is in
    attribute,  \* per thread: the attribute argument of the call
    index_id,   \* per thread: what index_gtf returned
    walk,       \* per thread: the visits twalk still has to deliver
    visited,    \* per thread: the visits twalk has delivered in this call
    datap,      \* per thread: action_list's local datap
    depth,      \* per thread: action_list's argument depth
    sl,         \* per thread: get_attribute_list's local sl
    i,          \* per thread: get_attribute_list's local i
    results,    \* the calls that returned: who, what, and the address returned
    ncalls      \* number of calls started

vars == <<gtf_data, heap, vret, pc, func, attribute, index_id, walk, visited,
          datap, depth, sl, i, results, ncalls>>

-----------------------------------------------------------------------------
(* Bounds *)

MaxRows == 3
LongRows == 10
MaxCalls == 2
MaxConcRows == 1

Threads == {1, 2}

-----------------------------------------------------------------------------
(* Texts *)

\* A NULL char *: no character has code -1.
NULL == <<-1>>
\* A NULL char **.
NullRow == <<>>

T_feature == <<102, 101, 97, 116, 117, 114, 101>>     \* "feature"
T_seqid   == <<115, 101, 113, 105, 100>>              \* "seqid"
T_CDS     == <<67, 68, 83>>                           \* "CDS"
T_exon    == <<101, 120, 111, 110>>                   \* "exon"
T_gene    == <<103, 101, 110, 101>>                   \* "gene"
T_chr1    == <<99, 104, 114, 49>>                     \* "chr1"
T_chr10   == <<99, 104, 114, 49, 48>>                 \* "chr10"
T_chr2    == <<99, 104, 114, 50>>                     \* "chr2"
T_gid     == <<103, 105, 100>>                        \* "gid"
T_tid     == <<116, 105, 100>>                        \* "tid"
T_g1      == <<103, 49>>                              \* "g1"
T_g2      == <<103, 50>>                              \* "g2"
T_t1      == <<116, 49>>                              \* "t1"
T_t2      == <<116, 50>>                              \* "t2"

\* strcmp(a, b) < 0
StrLess(a, b) ==
    \E k \in 1..(Len(a) + 1) :
        /\ \A j \in 1..(k - 1) : j <= Len(b) /\ a[j] = b[j]
        /\ IF k > Len(a) THEN Len(b) >= k
           ELSE k <= Len(b) /\ a[k] < b[k]

\* A conversion that keeps the last digit only.
Digits_last(n) == <<48 + (n % 10)>>

RECURSIVE Digits(_)
Digits(n) == IF n < 10 THEN <<48 + n>> ELSE Digits(n \div 10) \o <<48 + (n % 10)>>

\* sprintf(tmp, "%d", n)
sprintf_d(n) == IF n < 0 THEN <<45>> \o Digits(0 - n) ELSE Digits(n)

-----------------------------------------------------------------------------
(* The dataset and the collaborators index_gtf and get_all_attributes *)

\* The rows datasets are made of.  The attributes of a row are a sequence of
\* <<name, value>> pairs; the gene row has no "tid".
RowValues == {
    [feature |-> T_gene, seqid |-> T_chr1,  attrs |-> << <<T_gid, T_g1>> >>],
    [feature |-> T_exon, seqid |-> T_chr10, attrs |-> << <<T_gid, T_g1>>, <<T_tid, T_t1>> >>],
    [feature |-> T_CDS,  seqid |-> T_chr2,  attrs |-> << <<T_gid, T_g2>>, <<T_tid, T_t2>> >>] }

\* The short datasets are the sequences of up to MaxRows rows; a long one
\* repeats one row LongRows times before a last row, which makes a count of
\* two digits.
Datasets ==
    UNION {[1..n -> RowValues] : n \in 0..MaxRows}
        \cup {[k \in 1..(LongRows + 1) |-> IF k <= LongRows THEN r ELSE last] :
                  r \in RowValues, last \in RowValues}

\* The attribute argument a caller passes: a name some datasets have and
\* others have not.
AttrArgs == {T_tid}

AttrNames(D) ==
    UNION {{D[r].attrs[a][1] : a \in DOMAIN D[r].attrs} : r \in DOMAIN D}

\* The values of key a row bears: one for a column, at most one for an attribute.
RowKeyValues(row, key) ==
    IF key = T_feature THEN {row.feature}
    ELSE IF key = T_seqid THEN {row.seqid}
    ELSE {row.attrs[a][2] : a \in {b \in DOMAIN row.attrs : row.attrs[b][1] = key}}

DistinctValues(D, key) == UNION {RowKeyValues(D[r], key) : r \in DOMAIN D}

NbRow(D, key, v) == Cardinality({r \in DOMAIN D : v \in RowKeyValues(D[r], key)})

KnownKey(D, key) ==
    \/ key \in {T_feature, T_seqid}
    \/ \E r \in DOMAIN D : \E a \in DOMAIN D[r].attrs : D[r].attrs[a][1] = key

RECURSIVE SortTexts(_)
SortTexts(S) ==
    IF S = {} THEN <<>>
    ELSE LET m == CHOOSE x \in S : \A y \in S \ {x} : StrLess(x, y)
         IN  <<m>> \o SortTexts(S \ {m})

\* The ROW_LIST entries of the index on key, in the index's order.
IndexEntries(D, key) ==
    LET s == SortTexts(DistinctValues(D, key))
    IN  [k \in DOMAIN s |-> [token |-> s[k], nb_row |-> NbRow(D, key, s[k])]]

\* Every binary search tree over a sorted sequence of entries.  A tree is
\* <<>> (NULL) or <<left, entry, right>>.
RECURSIVE Trees(_)
Trees(s) ==
    IF s = <<>> THEN {<<>>}
    ELSE UNION {{<<l, s[k], r>> : l \in Trees(SubSeq(s, 1, k - 1)),
                                  r \in Trees(SubSeq(s, k + 1, Len(s)))}
                : k \in DOMAIN s}

\* A handle that designates no index: how index_gtf signals a failure.
NoIndex == [valid |-> FALSE, data |-> <<>>]

\* index_gtf(gtf_data, key): the handles it may return.  For a key it knows,
\* an index of any shape.  For a key with no value in the dataset, an index
\* with no entry, or the signal that the key cannot be indexed.
index_gtf(D, key) ==
    IF KnownKey(D, key)
    THEN {[valid |-> TRUE, data |-> t] : t \in Trees(IndexEntries(D, key))}
    ELSE {[valid |-> TRUE, data |-> <<>>], NoIndex}

\* What a read through a handle that designates no index can find if the
\* process survives it: the root of some index of the dataset.
StrayRoots(D) ==
    UNION {Trees(IndexEntries(D, k)) : k \in {T_feature, T_seqid} \cup AttrNames(D)}

RECURSIVE Perms(_)
Perms(S) ==
    IF S = {} THEN {<<>>}
    ELSE UNION {{<<x>> \o p : p \in Perms(S \ {x})} : x \in S}

\* get_all_attributes(gtf_data): the distinct attribute names, in some order.
get_all_attributes(D) == Perms(AttrNames(D))

-----------------------------------------------------------------------------
(* twalk *)

Visit(w, t, d) == [which |-> w, node |-> t[2], depth |-> d]

\* twalk(root, action): the calls of action, in order.
RECURSIVE twalk(_, _)
twalk(t, d) ==
    IF t = <<>> THEN <<>>
    ELSE IF t[1] = <<>> /\ t[3] = <<>> THEN <<Visit("leaf", t, d)>>
    ELSE <<Visit("preorder", t, d)>> \o twalk(t[1], d + 1)
         \o <<Visit("postorder", t, d)>> \o twalk(t[3], d + 1)
         \o <<Visit("endorder", t, d)>>

-----------------------------------------------------------------------------
(* Memory *)

\* A TTEXT whose size was not zeroed.
NewTTEXT_unset == [size |-> 1, data |-> <<>>]

\* bookmem(1, sizeof(TTEXT)): a zeroed TTEXT, as calloc gave before it.
NewTTEXT == [size |-> 0, data |-> <<>>]

\* bookmem(n, sizeof(char *)): a zeroed row of n fields.
NewRow(n) == [k \in 1..n |-> NULL]

\* bookmem(n, sizeof(char **)): a zeroed array of n rows.
NewData(n) == [k \in 1..n |-> NullRow]

\* rebookmem(data, n * sizeof(char **)): the first n slots kept, new ones unset.
rebookmem(data, n) == [k \in 1..n |-> IF k <= Len(data) THEN data[k] ELSE NullRow]

\* T.data[idx] = row, idx counted from 0 as in the source.  A store past the
\* end of the array is undefined: the process is killed, or the store lands
\* outside the table and the table is as before.
StoreRow(T, idx, row) ==
    IF idx + 1 <= Len(T.data)
    THEN {[crash |-> FALSE, table |-> [T EXCEPT !.data[idx + 1] = row]]}
    ELSE {[crash |-> TRUE, table |-> T], [crash |-> FALSE, table |-> T]}

\* T.data[idx][f] = text.  A store through a row that is not there, or past
\* its fields, is undefined in the same way.
StoreField(T, idx, f, text) ==
    IF idx + 1 <= Len(T.data) /\ f + 1 <= Len(T.data[idx + 1])
    THEN {[crash |-> FALSE, table |-> [T EXCEPT !.data[idx + 1][f + 1] = text]]}
    ELSE {[crash |-> TRUE, table |-> T], [crash |-> FALSE, table |-> T]}

-----------------------------------------------------------------------------
(* The state machine *)

Funcs == {"get_feature_list", "get_seqid_list", "get_attribute_list",
          "get_attribute_values_list"}

\* The key an index-based entry point hands to index_gtf.
Key(f, a) ==
    IF f = "get_feature_list" THEN T_feature
    ELSE IF f = "get_seqid_list" THEN T_seqid
    ELSE a

Init ==
    /\ gtf_data \in Datasets
    /\ heap = <<>>
    /\ vret = 0
    /\ pc = [t \in Threads |-> "idle"]
    /\ func = [t \in Threads |-> "none"]
    /\ attribute = [t \in Threads |-> NULL]
    /\ index_id = [t \in Threads |-> NoIndex]
    /\ walk = [t \in Threads |-> <<>>]
    /\ visited = [t \in Threads |-> <<>>]
    /\ datap = [t \in Threads |-> [token |-> NULL, nb_row |-> 0]]
    /\ depth = [t \in Threads |-> 0]
    /\ sl = [t \in Threads |-> <<>>]
    /\ i = [t \in Threads |-> 0]
    /\ results = <<>>
    /\ ncalls = 0

\* An invalid memory access kills the process: no thread takes another step.
Killed == [t \in Threads |-> "killed"]

\* A caller enters f with argument a.
Enter(t, f, a, first) ==
    /\ pc[t] = "idle"
    /\ ncalls < MaxCalls
    /\ ncalls' = ncalls + 1
    /\ func' = [func EXCEPT ![t] = f]
    /\ attribute' = [attribute EXCEPT ![t] = a]
    /\ pc' = [pc EXCEPT ![t] = first]
    /\ UNCHANGED <<gtf_data, heap, vret, index_id, walk, visited, datap, depth, sl, i,
                   results>>

get_feature_list(t) == Enter(t, "get_feature_list", NULL, "alloc")

get_seqid_list(t) == Enter(t, "get_seqid_list", NULL, "alloc")

get_attribute_list(t) == Enter(t, "get_attribute_list", NULL, "l91")

get_attribute_values_list(t) ==
    \E a \in AttrArgs : Enter(t, "get_attribute_values_list", a, "alloc")

\* An entry point that allocates the table once and reuses it afterwards.
Alloc_reuse(t) ==
    /\ pc[t] = "alloc"
    /\ heap' = IF vret = 0 THEN Append(heap, [size |-> 0, data |-> <<>>]) ELSE heap
    /\ vret' = IF vret = 0 THEN Len(heap) + 1 ELSE vret
    /\ pc' = [pc EXCEPT ![t] = IF func[t] = "get_attribute_list" THEN "l103" ELSE "index"]
    /\ UNCHANGED <<gtf_data, func, attribute, index_id, walk, visited, datap, depth, sl,
                   i, results, ncalls>>

\* vret = (TTEXT *)bookmem(1, sizeof(TTEXT), ...)
Alloc(t) ==
    /\ pc[t] = "alloc"
    /\ heap' = Append(heap, NewTTEXT)
    /\ vret' = Len(heap) + 1
    /\ pc' = [pc EXCEPT ![t] = IF func[t] = "get_attribute_list" THEN "l103" ELSE "index"]
    /\ UNCHANGED <<gtf_data, func, attribute, index_id, walk, visited, datap, depth, sl,
                   i, results, ncalls>>

\* INDEX_ID *index_id = index_gtf(gtf_data, key);
Index(t) ==
    /\ pc[t] = "index"
    /\ \E h \in index_gtf(gtf_data, Key(func[t], attribute[t])) :
           index_id' = [index_id EXCEPT ![t] = h]
    /\ pc' = [pc EXCEPT ![t] = "twalk"]
    /\ UNCHANGED <<gtf_data, heap, vret, func, attribute, walk, visited, datap, depth,
                   sl, i, results, ncalls>>

\* twalk(column[index_id->column]->index[index_id->index_rank]->data, action_list);
\* The handle is dereferenced unchecked: through one that designates no index
\* the read is undefined, and the process is killed or walks whatever it found.
Twalk(t) ==
    /\ pc[t] = "twalk"
    /\ IF index_id[t].valid
       THEN /\ walk' = [walk EXCEPT ![t] = twalk(index_id[t].data, 0)]
            /\ pc' = [pc EXCEPT ![t] = "visit"]
       ELSE \E o \in {[crash |-> TRUE, root |-> <<>>]}
                     \cup {[crash |-> FALSE, root |-> r] : r \in StrayRoots(gtf_data)} :
                /\ walk' = [walk EXCEPT ![t] = twalk(o.root, 0)]
                /\ pc' = IF o.crash THEN Killed ELSE [pc EXCEPT ![t] = "visit"]
    /\ UNCHANGED <<gtf_data, heap, vret, func, attribute, index_id, visited,
                   datap, depth, sl, i, results, ncalls>>

\* A switch that appends at the first visit of a node instead of the second.
Appends_preorder(which) == which \in {"preorder", "leaf"}

\* A switch whose cases all fall through to the append.
Appends_every(which) == TRUE

\* The cases of action_list's switch that append a row.
Appends(which) == which \in {"postorder", "leaf"}

\* twalk calls action_list(nodep, which, depth): the switch, and for the
\* appending cases datap = *((ROW_LIST **)nodep).
action_list(t) ==
    /\ pc[t] = "visit"
    /\ walk[t] # <<>>
    /\ LET v == Head(walk[t])
       IN  /\ walk' = [walk EXCEPT ![t] = Tail(walk[t])]
           /\ visited' = [visited EXCEPT ![t] = Append(visited[t], v)]
           /\ IF Appends(v.which)
              THEN /\ datap' = [datap EXCEPT ![t] = v.node]
                   /\ pc' = [pc EXCEPT ![t] = "l31"]
              ELSE UNCHANGED <<datap, pc>>
           /\ depth' = [depth EXCEPT ![t] = v.depth]
    /\ UNCHANGED <<gtf_data, heap, vret, func, attribute, index_id, sl, i,
                   results, ncalls>>

\* vret->data = (char ***)rebookmem(vret->data, (vret->size + 1) * sizeof(char **), ...)
L31(t) ==
    /\ pc[t] = "l31"
    /\ heap' = [heap EXCEPT ![vret].data = rebookmem(@, heap[vret].size + 1)]
    /\ pc' = [pc EXCEPT ![t] = "l33"]
    /\ UNCHANGED <<gtf_data, vret, func, attribute, index_id, walk, visited,
                   datap, depth, sl, i, results, ncalls>>

\* vret->data[vret->size] = (char **)bookmem(2, sizeof(char *), ...)
L33(t) ==
    /\ pc[t] = "l33"
    /\ \E o \in StoreRow(heap[vret], heap[vret].size, NewRow(2)) :
           /\ heap' = [heap EXCEPT ![vret] = o.table]
           /\ pc' = IF o.crash THEN Killed ELSE [pc EXCEPT ![t] = "l36"]

    /\ UNCHANGED <<gtf_data, vret, func, attribute, index_id, walk, visited,
                   datap, depth, sl, i, results, ncalls>>

\* A conversion of the wrong integer: action_list's depth argument.
CountText_depth(node, d) == sprintf_d(d)

\* sprintf(tmp, "%d", datap->nb_row)
CountText(node, d) == sprintf_d(node.nb_row)

\* sprintf(tmp, "%d", datap->nb_row);
\* vret->data[vret->size][0] = dupstring(tmp, ...)
L36(t) ==
    /\ pc[t] = "l36"
    /\ \E o \in StoreField(heap[vret], heap[vret].size, 0, CountText(datap[t], depth[t])) :
           /\ heap' = [heap EXCEPT ![vret] = o.table]
           /\ pc' = IF o.crash THEN Killed ELSE [pc EXCEPT ![t] = "l38"]

    /\ UNCHANGED <<gtf_data, vret, func, attribute, index_id, walk, visited,
                   datap, depth, sl, i, results, ncalls>>

\* vret->data[vret->size][1] = dupstring(datap->token, ...)
L38(t) ==
    /\ pc[t] = "l38"
    /\ \E o \in StoreField(heap[vret], heap[vret].size, 1, datap[t].token) :
           /\ heap' = [heap EXCEPT ![vret] = o.table]
           /\ pc' = IF o.crash THEN Killed ELSE [pc EXCEPT ![t] = "l39"]

    /\ UNCHANGED <<gtf_data, vret, func, attribute, index_id, walk, visited,
                   datap, depth, sl, i, results, ncalls>>

\* vret->size++; and action_list returns to twalk
L39(t) ==
    /\ pc[t] = "l39"
    /\ heap' = [heap EXCEPT ![vret].size = @ + 1]
    /\ pc' = [pc EXCEPT ![t] = "visit"]
    /\ UNCHANGED <<gtf_data, vret, func, attribute, index_id, walk, visited,
                   datap, depth, sl, i, results, ncalls>>

\* twalk has delivered every visit and returns to the entry point.
TwalkDone(t) ==
    /\ pc[t] = "visit"
    /\ walk[t] = <<>>
    /\ pc' = [pc EXCEPT ![t] = "return"]
    /\ UNCHANGED <<gtf_data, heap, vret, func, attribute, index_id, walk,
                   visited, datap, depth, sl, i, results, ncalls>>

\* STRING_LIST *sl = get_all_attributes(gtf_data);
L91(t) ==
    /\ pc[t] = "l91"
    /\ \E names \in get_all_attributes(gtf_data) : sl' = [sl EXCEPT ![t] = names]
    /\ pc' = [pc EXCEPT ![t] = "alloc"]
    /\ UNCHANGED <<gtf_data, heap, vret, func, attribute, index_id, walk,
                   visited, datap, depth, i, results, ncalls>>

\* The size set before the rows are filled.
L103_size(t) ==
    /\ pc[t] = "l103"
    /\ heap' = [heap EXCEPT ![vret] = [size |-> Len(sl[t]), data |-> NewData(Len(sl[t]))]]
    /\ i' = [i EXCEPT ![t] = 0]
    /\ pc' = [pc EXCEPT ![t] = "l108"]
    /\ UNCHANGED <<gtf_data, vret, func, attribute, index_id, walk, visited,
                   datap, depth, sl, results, ncalls>>

\* vret->data = (char ***)bookmem(sl->nb, sizeof(char **), ...); i = 0
L103(t) ==
    /\ pc[t] = "l103"
    /\ heap' = [heap EXCEPT ![vret].data = NewData(Len(sl[t]))]
    /\ i' = [i EXCEPT ![t] = 0]
    /\ pc' = [pc EXCEPT ![t] = "l108"]
    /\ UNCHANGED <<gtf_data, vret, func, attribute, index_id, walk, visited,
                   datap, depth, sl, results, ncalls>>

\* for (...; i < sl->nb; ...)
L108(t) ==
    /\ pc[t] = "l108"
    /\ pc' = [pc EXCEPT ![t] = IF i[t] < Len(sl[t]) THEN "l110" ELSE "l117"]
    /\ UNCHANGED <<gtf_data, heap, vret, func, attribute, index_id, walk,
                   visited, datap, depth, sl, i, results, ncalls>>

\* vret->data[i] = (char **)bookmem(1, sizeof(char *), ...)
L110(t) ==
    /\ pc[t] = "l110"
    /\ \E o \in StoreRow(heap[vret], i[t], NewRow(1)) :
           /\ heap' = [heap EXCEPT ![vret] = o.table]
           /\ pc' = IF o.crash THEN Killed ELSE [pc EXCEPT ![t] = "l112"]

    /\ UNCHANGED <<gtf_data, vret, func, attribute, index_id, walk, visited,
                   datap, depth, sl, i, results, ncalls>>

\* A loop body that copies sl->list[0] into every row.
L112_first(t) ==
    /\ pc[t] = "l112"
    /\ \E o \in StoreField(heap[vret], i[t], 0, sl[t][1]) :
           /\ heap' = [heap EXCEPT ![vret] = o.table]
           /\ pc' = IF o.crash THEN Killed ELSE [pc EXCEPT ![t] = "l108"]
    /\ i' = [i EXCEPT ![t] = @ + 1]
    /\ UNCHANGED <<gtf_data, vret, func, attribute, index_id, walk, visited,
                   datap, depth, sl, results, ncalls>>

\* vret->data[i][0] = dupstring(sl->list[i], ...); i++
L112(t) ==
    /\ pc[t] = "l112"
    /\ \E o \in StoreField(heap[vret], i[t], 0, sl[t][i[t] + 1]) :
           /\ heap' = [heap EXCEPT ![vret] = o.table]
           /\ pc' = IF o.crash THEN Killed ELSE [pc EXCEPT ![t] = "l108"]
    /\ i' = [i EXCEPT ![t] = @ + 1]
    /\ UNCHANGED <<gtf_data, vret, func, attribute, index_id, walk, visited,
                   datap, depth, sl, results, ncalls>>

\* vret->size = sl->nb
L117(t) ==
    /\ pc[t] = "l117"
    /\ heap' = [heap EXCEPT ![vret].size = Len(sl[t])]
    /\ pc' = [pc EXCEPT ![t] = "return"]
    /\ UNCHANGED <<gtf_data, vret, func, attribute, index_id, walk, visited,
                   datap, depth, sl, i, results, ncalls>>

\* return vret;
Return(t) ==
    /\ pc[t] = "return"
    /\ results' = Append(results,
                         [thread |-> t, func |-> func[t],
                          key |-> Key(func[t], attribute[t]),
                          names |-> sl[t], indexed |-> index_id[t].valid,
                          addr |-> vret])
    /\ pc' = [pc EXCEPT ![t] = "idle"]
    /\ func' = [func EXCEPT ![t] = "none"]
    /\ attribute' = [attribute EXCEPT ![t] = NULL]
    /\ index_id' = [index_id EXCEPT ![t] = NoIndex]
    /\ visited' = [visited EXCEPT ![t] = <<>>]
    /\ datap' = [datap EXCEPT ![t] = [token |-> NULL, nb_row |-> 0]]
    /\ depth' = [depth EXCEPT ![t] = 0]
    /\ sl' = [sl EXCEPT ![t] = <<>>]
    /\ i' = [i EXCEPT ![t] = 0]
    /\ UNCHANGED <<gtf_data, heap, vret, walk, ncalls>>

Step(t) ==
    \/ get_feature_list(t)
    \/ get_seqid_list(t)
    \/ get_attribute_list(t)
    \/ get_attribute_values_list(t)
    \/ Alloc(t)
    \/ Index(t)
    \/ Twalk(t)
    \/ action_list(t)
    \/ L31(t)
    \/ L33(t)
    \/ L36(t)
    \/ L38(t)
    \/ L39(t)
    \/ TwalkDone(t)
    \/ L91(t)
    \/ L103(t)
    \/ L108(t)
    \/ L110(t)
    \/ L112(t)
    \/ L117(t)
    \/ Return(t)

\* One caller: the calls follow one another, as the library is meant to be used.
Next == Step(1)

Spec == Init /\ [][Next]_vars

\* Two callers whose calls overlap.
InitConc == Init /\ Len(gtf_data) <= MaxConcRows

NextConc == \E t \in Threads : Step(t)

SpecConc == InitConc /\ [][NextConc]_vars

-----------------------------------------------------------------------------
(* Properties *)

IndexBased(f) == f \in {"get_feature_list", "get_seqid_list",
                        "get_attribute_values_list"}

\* The text is a decimal numeral: digits only, no leading zero.
IsDecimal(s) ==
    /\ Len(s) >= 1
    /\ \A k \in DOMAIN s : s[k] \in 48..57
    /\ Len(s) > 1 => s[1] # 48

RECURSIVE atoi(_)
atoi(s) == IF s = <<>> THEN 0
           ELSE 10 * atoi(SubSeq(s, 1, Len(s) - 1)) + (s[Len(s)] - 48)

\* The results of the index-based calls on a key of the dataset.
ValidListings ==
    {k \in DOMAIN results :
        IndexBased(results[k].func) /\ KnownKey(gtf_data, results[k].key)}

\* A (count, key) row says that key occurs count times under key column K.
CountRow(row, K) ==
    /\ Len(row) = 2
    /\ IsDecimal(row[1])
    /\ row[2] \in DistinctValues(gtf_data, K)
    /\ atoi(row[1]) = NbRow(gtf_data, K, row[2])

\* C1: the table returned by an index-based listing on a valid key has
\* exactly one 2-field row per distinct value of the key in the dataset, and
\* the count field of a row is the decimal text of the number of dataset rows
\* bearing that row's value.
C1_OneRowPerDistinctValue ==
    \A k \in ValidListings :
        LET T == heap[results[k].addr]
            K == results[k].key
        IN  /\ T.size = Cardinality(DistinctValues(gtf_data, K))
            /\ Len(T.data) = T.size
            /\ \A j \in 1..T.size : CountRow(T.data[j], K)
            /\ \A j1, j2 \in 1..T.size : j1 # j2 => T.data[j1][2] # T.data[j2][2]

\* A listing returned two rows, one of them with a count of two digits.
C1_Witness ==
    \E k \in ValidListings :
        LET T == heap[results[k].addr]
        IN  /\ T.size = 2
            /\ \E j \in 1..T.size : Len(T.data[j][1]) = 2

\* The table (size and rows) a call returns when it runs alone.
AloneRows(r) ==
    IF r.func = "get_attribute_list"
    THEN [j \in DOMAIN r.names |-> <<r.names[j]>>]
    ELSE LET e == IndexEntries(gtf_data, r.key)
         IN  [j \in DOMAIN e |-> <<sprintf_d(e[j].nb_row), e[j].token>>]

ReturnsAloneTable(r) ==
    /\ heap[r.addr].size = Len(AloneRows(r))
    /\ heap[r.addr].data = AloneRows(r)

\* C2: when two calls on different keys of the dataset overlap, each returns
\* exactly the table it returns when run alone.
C2_NoLeakBetweenCalls ==
    (/\ Len(results) = 2
     /\ results[1].thread # results[2].thread
     /\ <<results[1].func, results[1].key>> # <<results[2].func, results[2].key>>
     /\ \A k \in 1..2 : results[k].func = "get_attribute_list" \/ k \in ValidListings)
    => (ReturnsAloneTable(results[1]) /\ ReturnsAloneTable(results[2]))

\* C3: get_attribute_values_list never returns a table for an attribute name
\* that does not exist in the dataset.
C3_NoTableForUnknownAttribute ==
    \A k \in DOMAIN results :
        results[k].func = "get_attribute_values_list"
            => KnownKey(gtf_data, results[k].key)

\* The rows of T below n are in strictly ascending strcmp order of the key.
Ascending(T, n) ==
    /\ Len(T.data) >= n
    /\ \A j \in 1..n : Len(T.data[j]) = 2
    /\ \A j1, j2 \in 1..n : j1 < j2 => StrLess(T.data[j1][2], T.data[j2][2])

\* The threads that are walking the index of a key of the dataset.
Walking ==
    {t \in Threads : /\ pc[t] \in {"visit", "return"}
                     /\ IndexBased(func[t])
                     /\ KnownKey(gtf_data, Key(func[t], attribute[t]))}

\* C4: the rows of an index-based listing on a valid key are in ascending
\* order of the key field, whatever the shape of the index tree, in the
\* table returned and between two visits of the walk that builds it.
C4_RowsAscending ==
    /\ \A k \in ValidListings : Ascending(heap[results[k].addr], heap[results[k].addr].size)
    /\ \A t \in Walking : Ascending(heap[vret], heap[vret].size)

\* The walk of a tree whose root is not its smallest key has ended with all
\* three sequence ids listed, "chr1" before "chr10" before "chr2".
C4_Witness ==
    \E t \in Walking :
        /\ pc[t] = "return"
        /\ func[t] = "get_seqid_list"
        /\ heap[vret].size = 3
        /\ visited[t][1].which = "preorder"
        /\ visited[t][1].node.token # heap[vret].data[1][2]

RECURSIVE SumCounts(_)
SumCounts(rows) ==
    IF rows = <<>> THEN 0 ELSE atoi(Head(rows)[1]) + SumCounts(Tail(rows))

\* The count fields of T are numerals and sum to n.
CountsSumTo(T, n) ==
    /\ Len(T.data) = T.size
    /\ \A j \in 1..T.size : Len(T.data[j]) = 2 /\ IsDecimal(T.data[j][1])
    /\ SumCounts(T.data) = n

\* C5 as stated: for every valid key, the count fields of the rows returned
\* sum to the number of data rows of the dataset.
C5_CountsSumToAllRows ==
    \A k \in ValidListings : CountsSumTo(heap[results[k].addr], Len(gtf_data))

\* The rows of the dataset that bear a value of the key.
Bearing(K) == {r \in DOMAIN gtf_data : RowKeyValues(gtf_data[r], K) # {}}

\* C5 amended: for every valid key, the count fields of the rows returned sum
\* to the number of data rows that bear a value of the key, which is every
\* data row for the feature and seqid columns.
C5_CountsSumToBearingRows ==
    \A k \in ValidListings :
        /\ CountsSumTo(heap[results[k].addr], Cardinality(Bearing(results[k].key)))
        /\ results[k].key \in {T_feature, T_seqid}
               => Cardinality(Bearing(results[k].key)) = Len(gtf_data)

\* An attribute listing returned on a dataset one row of which lacks the
\* attribute and another bears it.
C5_Witness ==
    \E k \in ValidListings :
        /\ results[k].func = "get_attribute_values_list"
        /\ Cardinality(Bearing(results[k].key)) < Len(gtf_data)
        /\ heap[results[k].addr].size >= 1

\* C6: on a dataset with zero rows, where the index has zero entries, an
\* index-based listing appends nothing and returns the table in its freshly
\* created state, size 0 and no rows.
C6_EmptyDatasetEmptyTable ==
    Len(gtf_data) = 0 =>
        /\ \A t \in Threads : IndexBased(func[t]) =>
               /\ pc[t] \notin {"l31", "l33", "l36", "l38", "l39"}
               /\ pc[t] \in {"index", "twalk", "visit", "return"}
                      => heap[vret] = [size |-> 0, data |-> <<>>]
        /\ \A k \in DOMAIN results : IndexBased(results[k].func) =>
               /\ results[k].addr \in DOMAIN heap
               /\ heap[results[k].addr] = [size |-> 0, data |-> <<>>]

\* Both column listings and an attribute listing whose index was built with
\* zero entries have returned on the dataset with zero rows.
C6_Witness ==
    /\ Len(gtf_data) = 0
    /\ Len(results) = 2
    /\ results[1].func = "get_seqid_list"
    /\ results[2].func = "get_attribute_values_list"
    /\ results[2].indexed

\* C7: get_attribute_list returns one 1-field row per name the enumerator
\* delivered: size is the length of the name list, row i holds the i-th name,
\* and no name is in two rows.
C7_OneRowPerName ==
    \A k \in DOMAIN results : results[k].func = "get_attribute_list" =>
        LET T == heap[results[k].addr]
            names == results[k].names
        IN  /\ T.size = Len(names)
            /\ Len(T.data) = T.size
            /\ \A j \in 1..T.size : T.data[j] = <<names[j]>>
            /\ \A j1, j2 \in 1..T.size : j1 # j2 => T.data[j1] # T.data[j2]
            /\ {names[j] : j \in DOMAIN names} = AttrNames(gtf_data)

\* The enumerator delivered "tid" before "gid" and the table has them so.
C7_Witness ==
    \E k \in DOMAIN results :
        /\ results[k].func = "get_attribute_list"
        /\ heap[results[k].addr].size = 2
        /\ heap[results[k].addr].data = <<<<T_tid>>, <<T_gid>>>>

\* C8: a table that was returned is a distinct object from every other
\* returned table and from the table a later call builds, and no step of a
\* later call changes its size or its rows.
C8_ReturnedTablesUntouched ==
    [][/\ \A k \in DOMAIN results : heap'[results[k].addr] = heap[results[k].addr]
       /\ \A k1, k2 \in DOMAIN results' :
              k1 # k2 => results'[k1].addr # results'[k2].addr
       /\ \A k \in DOMAIN results : \A t \in Threads :
              pc'[t] \notin {"idle", "alloc", "l91", "killed"}
                  => vret' # results[k].addr]_vars

\* Two calls have returned, each a table with rows.
C8_Witness ==
    /\ Len(results) = 2
    /\ heap[results[1].addr].size >= 1
    /\ heap[results[2].addr].size >= 2

AppendVisit(v) == v.which \in {"postorder", "leaf"}

\* The row action_list makes of a node's entry.
RowOfEntry(row, e) ==
    /\ Len(row) = 2
    /\ IsDecimal(row[1])
    /\ atoi(row[1]) = e.nb_row
    /\ row[2] = e.token

\* C9: during the walk the table holds exactly one row per visit tagged
\* postorder or leaf delivered so far, in the order of those visits and each
\* the (count, key) of the visited node; visits tagged preorder or endorder
\* add nothing.  While a postorder or leaf visit is still in action_list its
\* row does not count yet.
C9_OneRowPerAppendVisit ==
    \A t \in Threads :
        (IndexBased(func[t]) /\ pc[t] \in {"visit", "return", "l31", "l33", "l36", "l38", "l39"}) =>
            LET T == heap[vret]
                app == SelectSeq(visited[t], AppendVisit)
                done == IF pc[t] \in {"visit", "return"} THEN Len(app) ELSE Len(app) - 1
            IN  /\ T.size = done
                /\ Len(T.data) >= done
                /\ \A j \in 1..done : RowOfEntry(T.data[j], app[j].node)

\* An internal node was visited three times and a leaf once, and the table
\* has two rows.
C9_Witness ==
    \E t \in Threads :
        /\ pc[t] = "visit"
        /\ walk[t] = <<>>
        /\ Len(visited[t]) = 4
        /\ {visited[t][n].which : n \in 1..4} = {"preorder", "postorder", "endorder", "leaf"}
        /\ heap[vret].size = 2

\* The arity of the rows of the table at address a: of the call that
\* returned it, or of the call that is building it.
ArityOf(a) ==
    IF \E k \in DOMAIN results : results[k].addr = a
    THEN LET k == CHOOSE n \in DOMAIN results : results[n].addr = a
         IN  IF results[k].func = "get_attribute_list" THEN 1 ELSE 2
    ELSE IF \E t \in Threads : func[t] = "get_attribute_list" THEN 1 ELSE 2

\* Every row below size is there and has all its fields written.
Populated(T, arity) ==
    /\ T.size <= Len(T.data)
    /\ \A j \in 1..T.size :
           /\ Len(T.data[j]) = arity
           /\ \A f \in 1..arity : T.data[j][f] # NULL

\* C10: in every state of a call that runs alone, no table's size has
\* decreased, and every row below a table's size has all the fields of the
\* call's arity written: size is raised over a row only after its fields.
C10_TableConsistent ==
    [][/\ \A a \in DOMAIN heap : heap'[a].size >= heap[a].size
       /\ \A a \in DOMAIN heap' : Populated(heap'[a], ArityOf(a)')]_vars

\* action_list has written the count of a second row and not yet its key:
\* the row is above size.
C10_Witness ==
    \E t \in Threads :
        /\ pc[t] = "l38"
        /\ heap[vret].size = 1
        /\ Len(heap[vret].data) = 2
        /\ heap[vret].data[2][1] # NULL
        /\ heap[vret].data[2][2] = NULL

====
